---- MODULE Spec2Model ----
(***************************************************************************)
(* Model of the kimm model registry (kimm/_src/utils/model_registry.py),   *)
(* of the MobileNetV3 architecture compiler                                *)
(* (kimm/_src/models/mobilenet_v3.py, kimm/models/mobilenet_v3.py), of the *)
(* depthwise-separable block builder                                       *)
(* (kimm/_src/blocks/depthwise_separation.py) and of make_divisible.       *)
(*                                                                         *)
(* Strings are sequences of code points, so that str.lower(), str.replace  *)
(* and sorted() are computed the way Python computes them on ASCII text.   *)
(***************************************************************************)
EXTENDS Integers, Sequences, FiniteSets, TLC

VARIABLES
    MODEL_REGISTRY,   \* model_registry.py: the list of registered entries
    module_all,       \* __all__ of the module that defines the model classes
    last,             \* the last registry call: its arguments and its outcome
    query,            \* _match_string: the query argument
    target,           \* _match_string: the target argument
    matched,          \* _match_string: whether it was called, and its result
    args,             \* MobileNetV3.__init__: the arguments of the call
    pc,               \* MobileNetV3.__init__: the position in the constructor
    current_stage_idx,
    current_block_idx,
    current_layer_idx,
    block_r,          \* r: the repeat count of the BlockSpec being applied
    block_s,          \* s: the stride of the BlockSpec, 1 after its first layer
    x_channels,       \* the channel count of the tensor x
    current_stride,
    features,         \* the keys of the features dict, in insertion order
    blocks,           \* the block builder calls made so far, in order
    head,             \* the head (or pooling) built at the end
    stem,             \* the stem built at the start
    ds_call,          \* apply_depthwise_separation_block: its arguments
    ds_pc,            \* apply_depthwise_separation_block: the position in it
    ds_layers,        \* apply_depthwise_separation_block: the layers applied
    divisible         \* make_divisible: its argument and its result

regVars == <<MODEL_REGISTRY, module_all, last>>
matchVars == <<query, target, matched>>
compVars ==
    <<args, pc, current_stage_idx, current_block_idx, current_layer_idx,
      block_r, block_s, x_channels, current_stride, features, blocks, head,
      stem>>
blockVars == <<ds_call, ds_pc, ds_layers>>
divVars == <<divisible>>
vars == <<regVars, matchVars, compVars, blockVars, divVars>>

(***************************************************************************)
(* Bounds of the model.                                                    *)
(***************************************************************************)
MaxQueryLen == 3
MaxTargetLen == 3
MaxAdds == 2      \* calls of add_model_to_registry in one run
MaxDepthHalves == 4   \* the depth multipliers are 0, 0.5, ..., MaxDepthHalves/2
MaxQuarters == 160    \* make_divisible is called with 1/4, ..., MaxQuarters/4

(***************************************************************************)
(* Python values.                                                          *)
(***************************************************************************)
None == [t |-> "None"]
PyBool(b) == [t |-> "bool", v |-> b]
PyStr(s) == [t |-> "str", v |-> s]

\* a == b on the values above
PyEq(a, b) == a.t = b.t /\ (a.t = "None" \/ a.v = b.v)

\* Code points of the characters the code names, and of the ASCII letters.
Space == 32
Dot == 46
Underscore == 95
UpperA == 65
UpperZ == 90
CaseOffset == 32

\* str.lower() on one ASCII character
LowerChar(c) == IF c >= UpperA /\ c <= UpperZ THEN c + CaseOffset ELSE c

\* str.lower()
Lower(s) == [i \in 1..Len(s) |-> LowerChar(s[i])]

\* str.replace(ch, "") for a one-character ch
Replace(s, ch) == SelectSeq(s, LAMBDA c : c # ch)

\* no MobileNetV3 is being constructed
CompilerIdle ==
    /\ args = [impl |-> "none"]
    /\ pc = "idle"
    /\ current_stage_idx = 0
    /\ current_block_idx = 0
    /\ current_layer_idx = 0
    /\ block_r = 0
    /\ block_s = 0
    /\ x_channels = 0
    /\ current_stride = 0
    /\ features = <<>>
    /\ blocks = <<>>
    /\ head = [built |-> "nothing"]
    /\ stem = [built |-> FALSE]

\* no apply_depthwise_separation_block is being called on its own
BuilderIdle ==
    /\ ds_call = [has_skip |-> FALSE]
    /\ ds_pc = "idle"
    /\ ds_layers = <<>>

\* no make_divisible is being called on its own
DivisibleIdle == divisible = [called |-> FALSE, quarters |-> 0, result |-> 0]

(***************************************************************************)
(* _match_string                                                           *)
(***************************************************************************)
\* line 17: the query as normalised
NormalizeQuery(q) == Replace(Replace(Replace(Lower(q), Space), Underscore), Dot)

\* lines 21-27, with a non-strict comparison of the index (mutation)
ScanTargetNonStrict(q_char, t, matched_idx) ==
    LET hits == {idx \in 0..(Len(t) - 1) :
                    t[idx + 1] = q_char /\ idx >= matched_idx}
    IN  IF hits = {} THEN -2
        ELSE CHOOSE idx \in hits : \A other \in hits : idx <= other

\* lines 21-27: the inner loop over the target for one query character: the
\* first index (0-based) that holds q_char and lies after matched_idx, or -2
\* when the loop ends with matched = False
ScanTarget(q_char, t, matched_idx) ==
    LET hits == {idx \in 0..(Len(t) - 1) :
                    t[idx + 1] = q_char /\ idx > matched_idx}
    IN  IF hits = {} THEN -2
        ELSE CHOOSE idx \in hits : \A other \in hits : idx <= other

\* lines 20-30: the outer loop, from the i-th query character on
RECURSIVE MatchLoop(_, _, _, _)
MatchLoop(q, t, i, matched_idx) ==
    IF i > Len(q) THEN TRUE
    ELSE LET idx == ScanTarget(q[i], t, matched_idx)
         IN  IF idx = -2 THEN FALSE
             ELSE MatchLoop(q, t, i + 1, idx)

\* lines 16-30 with an early `if not query: return False` (mutation)
_match_string_rejecting_empty(q, t) ==
    /\ NormalizeQuery(q) # <<>>
    /\ MatchLoop(NormalizeQuery(q), Lower(t), 1, -1)

\* lines 16-30
_match_string(q, t) == MatchLoop(NormalizeQuery(q), Lower(t), 1, -1)

(***************************************************************************)
(* The matcher on its own: every query and target within the bounds.       *)
(***************************************************************************)
QueryChars == {97, 66, Underscore, Dot, Space}     \* a B _ . and the space
TargetChars == {97, 98, 66, Underscore}            \* a b B _

StringsOver(chars, n) == UNION {[1..k -> chars] : k \in 0..n}

InitMatch ==
    /\ query \in StringsOver(QueryChars, MaxQueryLen)
    /\ target \in StringsOver(TargetChars, MaxTargetLen)
    /\ matched = [called |-> FALSE, result |-> FALSE]
    /\ MODEL_REGISTRY = <<>>
    /\ module_all = <<>>
    /\ last = [op |-> "none"]
    /\ CompilerIdle
    /\ BuilderIdle
    /\ DivisibleIdle

CallMatchString ==
    /\ ~matched.called
    /\ matched' = [called |-> TRUE, result |-> _match_string(query, target)]
    /\ UNCHANGED <<query, target, regVars, compVars, blockVars, divVars>>

NextMatch == CallMatchString

SpecMatch == InitMatch /\ [][NextMatch]_vars

(***************************************************************************)
(* The registry: clear_registry, add_model_to_registry, list_models.       *)
(***************************************************************************)
\* sorted() compares str by code point: s < t
StrLess(s, t) ==
    \E k \in 1..(Len(t)) :
        /\ \A i \in 1..(k - 1) : i <= Len(s) /\ s[i] = t[i]
        /\ (k > Len(s) \/ (k - 1 < Len(s) /\ s[k] < t[k]))

\* sorted() in descending order (mutation)
RECURSIVE sortedDescending(_)
sortedDescending(names) ==
    IF names = {} THEN <<>>
    ELSE LET hi == CHOOSE x \in names : \A y \in names : y = x \/ StrLess(y, x)
         IN  <<hi>> \o sortedDescending(names \ {hi})

\* line 123: sorted(result_names), the names of the set in ascending order
RECURSIVE sorted(_)
sorted(names) ==
    IF names = {} THEN <<>>
    ELSE LET lo == CHOOSE x \in names : \A y \in names : y = x \/ StrLess(x, y)
         IN  <<lo>> \o sorted(names \ {lo})

\* lines 104-105
RemoveByName(name, info) ==
    IF name # None THEN ~_match_string(name.v, info.name) ELSE FALSE

\* lines 108-112, assigning the comparison to need_remove (mutation)
RemoveByFeatureExtractorAssign(feature_extractor, info, need_remove) ==
    feature_extractor # None /\ info.feature_extractor # feature_extractor.v

\* lines 108-112, given need_remove so far
RemoveByFeatureExtractor(feature_extractor, info, need_remove) ==
    IF feature_extractor # None
       /\ info.feature_extractor # feature_extractor.v
    THEN TRUE ELSE need_remove

\* lines 113-120, testing the truth value of weights instead of
\* `weights is not None` (mutation)
RemoveByWeightsTruthy(weights, info, need_remove) ==
    IF weights # None /\ weights # PyBool(FALSE) /\ ~PyEq(info.weights, weights)
    THEN IF weights = PyBool(TRUE) /\ info.weights = None THEN TRUE
         ELSE IF weights.t = "str"
              THEN IF ~PyEq(PyStr(Lower(weights.v)), info.weights)
                   THEN TRUE ELSE need_remove
              ELSE need_remove
    ELSE need_remove

\* lines 113-120, given need_remove so far
RemoveByWeights(weights, info, need_remove) ==
    IF weights # None /\ ~PyEq(info.weights, weights)
    THEN IF weights = PyBool(TRUE) /\ info.weights = None THEN TRUE
         ELSE IF weights = PyBool(FALSE) /\ info.weights # None THEN TRUE
         ELSE IF weights.t = "str"
              THEN IF ~PyEq(PyStr(Lower(weights.v)), info.weights)
                   THEN TRUE ELSE need_remove
              ELSE need_remove
    ELSE need_remove

\* lines 101-120: need_remove for one entry
NeedRemove(name, feature_extractor, weights, info) ==
    RemoveByWeights(weights, info,
        RemoveByFeatureExtractor(feature_extractor, info,
            RemoveByName(name, info)))

\* lines 98-122: the loop over MODEL_REGISTRY from entry i on
RECURSIVE ListLoop(_, _, _, _, _, _)
ListLoop(registry, i, result_names, name, feature_extractor, weights) ==
    IF i > Len(registry) THEN result_names
    ELSE LET info == registry[i]
             added == result_names \cup {info.name}
         IN  ListLoop(registry, i + 1,
                 IF NeedRemove(name, feature_extractor, weights, info)
                 THEN added \ {info.name} ELSE added,
                 name, feature_extractor, weights)

\* lines 97-123 with result_names built from the entries that need no removal
\* (mutation)
ListModelsOfAnyEntry(registry, name, feature_extractor, weights) ==
    sorted({registry[i].name :
               i \in {j \in 1..Len(registry) :
                          ~NeedRemove(name, feature_extractor, weights,
                                      registry[j])}})

\* lines 97-123
ListModels(registry, name, feature_extractor, weights) ==
    sorted(ListLoop(registry, 1, {}, name, feature_extractor, weights))

\* The model classes handed to add_model_to_registry: __name__, whether the
\* class derives from BaseModel, and its available_feature_keys.
Foo == <<70, 111, 111>>
bar == <<98, 97, 114>>
Classes ==
    { [name |-> Foo, is_base_model |-> TRUE,
       available_feature_keys |-> <<"A">>],
      [name |-> Foo, is_base_model |-> FALSE,
       available_feature_keys |-> <<>>],
      [name |-> bar, is_base_model |-> TRUE,
       available_feature_keys |-> <<"A">>] }

imagenet == <<105, 109, 97, 103, 101, 110, 101, 116>>
ImageNet == <<73, 109, 97, 103, 101, 78, 101, 116>>
IMAGENET == <<73, 77, 65, 71, 69, 78, 69, 84>>
in1k == <<105, 110, 49, 107>>

\* the weights arguments of add_model_to_registry; a bool stands for every
\* value that is neither None nor a str
AddWeights == {None, PyBool(TRUE), PyStr(imagenet), PyStr(ImageNet)}

\* the arguments of list_models
NameFilters ==
    {None, PyStr(<<>>), PyStr(<<102, 111, 111>>), PyStr(<<98, 114>>),
     PyStr(<<70, Dot, 79>>), PyStr(<<Space, Underscore, Dot>>)}
FeatureExtractorFilters == {None, PyBool(TRUE), PyBool(FALSE)}
WeightsFilters ==
    {None, PyBool(TRUE), PyBool(FALSE), PyStr(imagenet), PyStr(IMAGENET),
     PyStr(in1k)}

Init ==
    /\ MODEL_REGISTRY = <<>>
    /\ module_all = <<>>
    /\ last = [op |-> "none"]
    /\ query = <<>>
    /\ target = <<>>
    /\ matched = [called |-> FALSE, result |-> FALSE]
    /\ CompilerIdle
    /\ BuilderIdle
    /\ DivisibleIdle

\* lines 33-34 with `MODEL_REGISTRY = []` binding a local name instead of
\* MODEL_REGISTRY.clear() (mutation)
clear_registry_rebinding ==
    /\ UNCHANGED MODEL_REGISTRY
    /\ last' = [op |-> "clear", cleared |-> Len(MODEL_REGISTRY)]
    /\ UNCHANGED <<module_all, matchVars, compVars, blockVars, divVars>>

\* lines 33-34
clear_registry ==
    /\ MODEL_REGISTRY' = <<>>
    /\ last' = [op |-> "clear", cleared |-> Len(MODEL_REGISTRY)]
    /\ UNCHANGED <<module_all, matchVars, compVars, blockVars, divVars>>

\* lines 54-58: the warnings of one call, one per entry of the same name
Warnings(registry, model_cls) ==
    Cardinality({i \in 1..Len(registry) : registry[i].name = model_cls.name})

\* lines 59-64: whether the call raises ValueError
RaisesValueError(weights) == weights # None /\ weights.t # "str"

\* lines 66-73 without line 65: the entry keeps the tag as given (mutation)
NewEntryAsGiven(model_cls, weights) ==
    [name |-> model_cls.name,
     feature_extractor |-> model_cls.is_base_model,
     feature_keys |-> IF model_cls.is_base_model
                      THEN model_cls.available_feature_keys ELSE <<>>,
     weights |-> weights]

\* lines 49-53, 65-73: the entry appended
NewEntry(model_cls, weights) ==
    [name |-> model_cls.name,
     feature_extractor |-> model_cls.is_base_model,
     feature_keys |-> IF model_cls.is_base_model
                      THEN model_cls.available_feature_keys ELSE <<>>,
     weights |-> IF weights # None THEN PyStr(Lower(weights.v)) ELSE None]

\* lines 37-73, with the entry appended before the weights are validated
\* (mutation)
add_model_validating_late(model_cls, weights) ==
    /\ Len(module_all) < MaxAdds
    /\ module_all' = Append(module_all, model_cls.name)
    /\ MODEL_REGISTRY' =
           Append(MODEL_REGISTRY,
                  IF RaisesValueError(weights)
                  THEN NewEntryAsGiven(model_cls, weights)
                  ELSE NewEntry(model_cls, weights))
    /\ last' = [op |-> "add", model_cls |-> model_cls, weights |-> weights,
                warnings |-> Warnings(MODEL_REGISTRY, model_cls),
                raised |-> RaisesValueError(weights)]
    /\ UNCHANGED <<matchVars, compVars, blockVars, divVars>>

\* lines 37-73, with a duplicate name raising instead of warning (mutation)
add_model_rejecting_duplicates(model_cls, weights) ==
    LET fails == \/ Warnings(MODEL_REGISTRY, model_cls) > 0
                 \/ RaisesValueError(weights)
    IN  /\ Len(module_all) < MaxAdds
        /\ module_all' = Append(module_all, model_cls.name)
        /\ IF fails
           THEN UNCHANGED MODEL_REGISTRY
           ELSE MODEL_REGISTRY' =
                    Append(MODEL_REGISTRY, NewEntry(model_cls, weights))
        /\ last' = [op |-> "add", model_cls |-> model_cls, weights |-> weights,
                    warnings |-> 0, raised |-> fails]
        /\ UNCHANGED <<matchVars, compVars, blockVars, divVars>>

\* lines 37-73, with lines 40-46 moved behind the validation of lines 59-65:
\* __all__ is extended only by a call that does not raise (mutation)
add_model_exporting_late(model_cls, weights) ==
    /\ Len(module_all) < MaxAdds
    /\ module_all' = IF RaisesValueError(weights) THEN module_all
                     ELSE Append(module_all, model_cls.name)
    /\ IF RaisesValueError(weights)
       THEN UNCHANGED MODEL_REGISTRY
       ELSE MODEL_REGISTRY' =
                Append(MODEL_REGISTRY, NewEntry(model_cls, weights))
    /\ last' = [op |-> "add", model_cls |-> model_cls, weights |-> weights,
                warnings |-> Warnings(MODEL_REGISTRY, model_cls),
                raised |-> RaisesValueError(weights)]
    /\ UNCHANGED <<matchVars, compVars, blockVars, divVars>>

\* lines 37-73
add_model_to_registry(model_cls, weights) ==
    /\ Len(module_all) < MaxAdds
    /\ module_all' = Append(module_all, model_cls.name)
    /\ IF RaisesValueError(weights)
       THEN UNCHANGED MODEL_REGISTRY
       ELSE MODEL_REGISTRY' =
                Append(MODEL_REGISTRY, NewEntry(model_cls, weights))
    /\ last' = [op |-> "add", model_cls |-> model_cls, weights |-> weights,
                warnings |-> Warnings(MODEL_REGISTRY, model_cls),
                raised |-> RaisesValueError(weights)]
    /\ UNCHANGED <<matchVars, compVars, blockVars, divVars>>

\* lines 77-123 with line 122 removing the entry from MODEL_REGISTRY instead
\* of its name from result_names (mutation)
list_models_removing_entries(name, feature_extractor, weights) ==
    /\ last' = [op |-> "list", name |-> name,
                feature_extractor |-> feature_extractor, weights |-> weights,
                result |-> ListModels(MODEL_REGISTRY, name, feature_extractor,
                                      weights)]
    /\ MODEL_REGISTRY' =
           SelectSeq(MODEL_REGISTRY,
                     LAMBDA info : ~NeedRemove(name, feature_extractor,
                                               weights, info))
    /\ UNCHANGED <<module_all, matchVars, compVars, blockVars, divVars>>

\* lines 77-123
list_models(name, feature_extractor, weights) ==
    /\ last' = [op |-> "list", name |-> name,
                feature_extractor |-> feature_extractor, weights |-> weights,
                result |-> ListModels(MODEL_REGISTRY, name, feature_extractor,
                                      weights)]
    /\ UNCHANGED <<MODEL_REGISTRY, module_all, matchVars, compVars, blockVars, divVars>>

Next ==
    \/ clear_registry
    \/ \E model_cls \in Classes, weights \in AddWeights :
           add_model_to_registry(model_cls, weights)
    \/ \E name \in NameFilters, feature_extractor \in FeatureExtractorFilters,
          weights \in WeightsFilters :
           list_models(name, feature_extractor, weights)

Spec == Init /\ [][Next]_vars

(***************************************************************************)
(* The architecture compiler: MobileNetV3.__init__.                        *)
(* width and depth are rationals [num, den]; expansion and                 *)
(* squeeze-excitation ratios are given in hundredths.                      *)
(***************************************************************************)
\* one row of a configuration table:
\* type, repeat, kernel_size, strides, expansion_ratio, channels, se_ratio,
\* activation
BlockSpec(block_type, rep, k, strides, e, c, se, act) ==
    [block_type |-> block_type, r |-> rep, k |-> k, s |-> strides, e |-> e,
     c |-> c, se |-> se, act |-> act]

DEFAULT_SMALL_CONFIG ==
    << <<BlockSpec("ds", 1, 3, 2, 100, 16, 25, "relu")>>,
       <<BlockSpec("ir", 1, 3, 2, 450, 24, 0, "relu"),
         BlockSpec("ir", 1, 3, 1, 367, 24, 0, "relu")>>,
       <<BlockSpec("ir", 1, 5, 2, 400, 40, 25, "hard_swish"),
         BlockSpec("ir", 2, 5, 1, 600, 40, 25, "hard_swish")>>,
       <<BlockSpec("ir", 2, 5, 1, 300, 48, 25, "hard_swish")>>,
       <<BlockSpec("ir", 3, 5, 2, 600, 96, 25, "hard_swish")>>,
       <<BlockSpec("cn", 1, 1, 1, 100, 576, 0, "hard_swish")>> >>

DEFAULT_LARGE_CONFIG ==
    << <<BlockSpec("ds", 1, 3, 1, 100, 16, 0, "relu")>>,
       <<BlockSpec("ir", 1, 3, 2, 400, 24, 0, "relu"),
         BlockSpec("ir", 1, 3, 1, 300, 24, 0, "relu")>>,
       <<BlockSpec("ir", 3, 5, 2, 300, 40, 25, "relu")>>,
       <<BlockSpec("ir", 1, 3, 2, 600, 80, 0, "hard_swish"),
         BlockSpec("ir", 1, 3, 1, 250, 80, 0, "hard_swish"),
         BlockSpec("ir", 2, 3, 1, 230, 80, 0, "hard_swish")>>,
       <<BlockSpec("ir", 2, 3, 1, 600, 112, 25, "hard_swish")>>,
       <<BlockSpec("ir", 3, 5, 2, 600, 160, 25, "hard_swish")>>,
       <<BlockSpec("cn", 1, 1, 1, 100, 960, 0, "hard_swish")>> >>

DEFAULT_LCNET_CONFIG ==
    << <<BlockSpec("dsa", 1, 3, 1, 100, 32, 0, "hard_swish")>>,
       <<BlockSpec("dsa", 2, 3, 2, 100, 64, 0, "hard_swish")>>,
       <<BlockSpec("dsa", 2, 3, 2, 100, 128, 0, "hard_swish")>>,
       <<BlockSpec("dsa", 1, 3, 2, 100, 256, 0, "hard_swish"),
         BlockSpec("dsa", 1, 5, 1, 100, 256, 0, "hard_swish")>>,
       <<BlockSpec("dsa", 4, 5, 1, 100, 256, 0, "hard_swish")>>,
       <<BlockSpec("dsa", 2, 5, 2, 100, 512, 25, "hard_swish")>> >>

\* A configuration list handed to the legacy constructor, which takes
\* `config: Union[str, List]`: two stages with the per-block strides
\* [2, 1], [2, 1, 1] and, in the second stage, the repeats [1, 2, 1].
CUSTOM_CONFIG ==
    << <<BlockSpec("ir", 1, 3, 2, 400, 24, 0, "relu"),
         BlockSpec("ir", 1, 3, 1, 300, 24, 0, "relu")>>,
       <<BlockSpec("ir", 1, 5, 2, 400, 40, 25, "hard_swish"),
         BlockSpec("ir", 2, 5, 1, 600, 40, 25, "hard_swish"),
         BlockSpec("ir", 1, 5, 1, 600, 40, 25, "hard_swish")>> >>

\* A configuration list with rows of the tables above: the "ds" row of the
\* small table and the second "dsa" row of the lcnet table.
LIST_CONFIG_WITH_DSA ==
    << <<BlockSpec("ds", 1, 3, 2, 100, 16, 25, "relu")>>,
       <<BlockSpec("dsa", 2, 3, 2, 100, 64, 0, "hard_swish")>> >>

\* the config argument is a list, not one of the strings
IsListConfig(config) == config \in {"custom", "custom_dsa"}

\* _src lines 101-109, legacy lines 187-192: the table of a config argument
ConfigTable(config) ==
    CASE config = "small" -> DEFAULT_SMALL_CONFIG
      [] config = "large" -> DEFAULT_LARGE_CONFIG
      [] config = "lcnet" -> DEFAULT_LCNET_CONFIG
      [] config = "custom" -> CUSTOM_CONFIG
      [] config = "custom_dsa" -> LIST_CONFIG_WITH_DSA

\* _src lines 103-109, legacy lines 189-192: conv_head_channels; the legacy
\* constructor leaves it unassigned for a list (0 here, never read as a count)
BaseHeadChannels(config) ==
    CASE config = "small" -> 1024
      [] config = "large" -> 1280
      [] config = "lcnet" -> 1280
      [] config = "custom" -> 0
      [] config = "custom_dsa" -> 0

\* int(): truncation of a / b towards zero, b > 0
Trunc(a, b) == IF a >= 0 THEN a \div b ELSE -((-a) \div b)

\* math.ceil of a / b, b > 0
Ceil(a, b) == -((-a) \div b)

\* make_divisible(c * width) without the step that adds the divisor when the
\* rounded value is below round_limit * value (mutation)
make_divisible_rounding_only(c, width) ==
    LET floored == (Trunc(c * width.num + 4 * width.den, width.den) \div 8) * 8
    IN  IF floored > 8 THEN floored ELSE 8

\* make_divisible(c * width) with divisor 8, min_value None, round_limit 0.9
make_divisible(c, width) ==
    LET floored == (Trunc(c * width.num + 4 * width.den, width.den) \div 8) * 8
        rounded == IF floored > 8 THEN floored ELSE 8
    IN  IF rounded * 10 * width.den < 9 * c * width.num
        THEN rounded + 8 ELSE rounded

\* lines 115-122, 166-172 (legacy 193-200, 252-258): the overrides of
\* force_activation, force_kernel_size and no_se
ForcedAct(minimal, act) == IF minimal THEN "relu" ELSE act
\* the kernel size clamped to 2 instead of 3 (mutation)
ForcedKernelTwo(minimal, k) == IF minimal THEN (IF k > 2 THEN 2 ELSE k) ELSE k
ForcedKernel(minimal, k) == IF minimal THEN (IF k > 3 THEN 3 ELSE k) ELSE k
ForcedSe(minimal, se) == IF minimal THEN 0 ELSE se

\* lines 154, 240 (legacy 241, 302): force_activation or "hard_swish"
StemActivation(minimal) == IF minimal THEN "relu" ELSE "hard_swish"
HeadActivation(minimal) == IF minimal THEN "relu" ELSE "hard_swish"

\* lines 176-177 with int(r * depth) in place of int(math.ceil(r * depth))
\* (mutation)
EffectiveRepeatTruncated(table, stage_idx, block_idx, rep, depth) ==
    IF block_idx \notin {0, Len(table) - 1}
    THEN Trunc(rep * depth.num, depth.den) ELSE rep

\* lines 176-177 (legacy 262-263): r after the depth multiplier; the test
\* reads len(_config), the number of stages
EffectiveRepeat(table, stage_idx, block_idx, rep, depth) ==
    IF block_idx \notin {0, Len(table) - 1}
    THEN Ceil(rep * depth.num, depth.den) ELSE rep

\* line 179 with the stride of the BlockSpec kept for every layer (mutation)
LayerStrideKept(strides, layer_idx) == strides

\* line 179 (legacy 265): s = s if current_layer_idx == 0 else 1
LayerStride(strides, layer_idx) == IF layer_idx = 0 THEN strides ELSE 1

\* lines 188, 208, 224 (legacy 270, 274) with the legacy constructor lacking
\* the branch for "cn" (mutation)
KnownKindsLegacyWithoutConv(impl) ==
    IF impl = "src" THEN {"ds", "dsa", "ir", "cn"} ELSE {"ds", "ir"}

\* the block kinds the constructor dispatches on: lines 188, 208, 224
\* (legacy 270, 274, 278)
KnownKinds(impl) ==
    IF impl = "src" THEN {"ds", "dsa", "ir", "cn"} ELSE {"ds", "ir", "cn"}

\* lines 189-192 without the `and s == 1` of line 192 (mutation)
HasSkipBySameChannels(impl, block_type, in_channels, c, strides) ==
    CASE block_type = "dsa" -> FALSE
      [] block_type = "cn" -> FALSE
      [] OTHER -> in_channels = c

\* lines 189-192 without the test of line 189: has_skip from the shapes for
\* every kind (mutation)
HasSkipByShape(impl, block_type, in_channels, c, strides) ==
    CASE block_type = "cn" -> FALSE
      [] OTHER -> in_channels = c /\ strides = 1

\* whether the block adds its input to its output: has_skip of lines 189-192
\* for ds/dsa (added at depthwise_separation.py lines 70-72), of the builders
\* (inverted_residual.py lines 35, 82; legacy lines 75 and 122) otherwise;
\* apply_conv2d_block has no skip
HasSkip(impl, block_type, in_channels, c, strides) ==
    CASE block_type = "dsa" -> FALSE
      [] block_type = "cn" -> FALSE
      [] OTHER -> in_channels = c /\ strides = 1

\* the key f"BLOCK{idx}_S{stride}" and the key "STEM_S2"
BlockKey(idx, stride) == [prefix |-> "BLOCK", idx |-> idx, stride |-> stride]
StemKey == [prefix |-> "STEM", idx |-> -1, stride |-> 2]

Table == ConfigTable(args.config)
SubCfg == Table[current_stage_idx + 1][current_block_idx + 1]

\* the arguments of the constructor
Widths ==
    {[num |-> 0, den |-> 1], [num |-> 1, den |-> 100],
     [num |-> 35, den |-> 100], [num |-> 1, den |-> 2], [num |-> 3, den |-> 4],
     [num |-> 1, den |-> 1], [num |-> 3, den |-> 2]}
Depths == {[num |-> n, den |-> 2] : n \in 0..MaxDepthHalves}
Configs(impl) ==
    IF impl = "src" THEN {"small", "large", "lcnet", "custom"}
    ELSE {"small", "large", "custom", "custom_dsa"}

\* _src lines 100-114: the constructor raises ValueError for a config that is
\* not one of the three strings; the legacy constructor takes a list
ConfigAccepted(impl, config) ==
    impl = "legacy" \/ config \in {"small", "large", "lcnet"}

\* _src lines 419-669: a model class, with the strides of the BLOCK keys it
\* declares in available_feature_keys and its class attributes
ModelClass(name, base, strides, width, fix, config, minimal) ==
    [name |-> name, base |-> base, strides |-> strides, width |-> width,
     depth |-> [num |-> 2, den |-> 2], fix_stem_and_head_channels |-> fix,
     config |-> config, minimal |-> minimal]

SmallStrides == <<4, 8, 16, 16, 32, 32>>
LargeStrides == <<2, 4, 8, 16, 16, 32, 32>>
LCNetStrides == <<2, 4, 8, 16, 16, 32>>

ModelClasses ==
    { ModelClass("MobileNetV3W050Small", "MobileNetV3Variant", SmallStrides,
                 [num |-> 1, den |-> 2], TRUE, "small", FALSE),
      ModelClass("MobileNetV3W075Small", "MobileNetV3Variant", SmallStrides,
                 [num |-> 3, den |-> 4], FALSE, "small", FALSE),
      ModelClass("MobileNetV3W100Small", "MobileNetV3Variant", SmallStrides,
                 [num |-> 1, den |-> 1], FALSE, "small", FALSE),
      ModelClass("MobileNetV3W100SmallMinimal", "MobileNetV3Variant",
                 SmallStrides, [num |-> 1, den |-> 1], FALSE, "small", TRUE),
      ModelClass("MobileNetV3W100Large", "MobileNetV3Variant", LargeStrides,
                 [num |-> 1, den |-> 1], FALSE, "large", FALSE),
      ModelClass("MobileNetV3W100LargeMinimal", "MobileNetV3Variant",
                 LargeStrides, [num |-> 1, den |-> 1], FALSE, "large", TRUE),
      ModelClass("LCNet035", "MobileNetV3Variant", LCNetStrides,
                 [num |-> 35, den |-> 100], FALSE, "lcnet", FALSE),
      ModelClass("LCNet050", "MobileNetV3Variant", LCNetStrides,
                 [num |-> 1, den |-> 2], FALSE, "lcnet", FALSE),
      ModelClass("LCNet075", "MobileNetV3Variant", LCNetStrides,
                 [num |-> 3, den |-> 4], FALSE, "lcnet", FALSE),
      ModelClass("LCNet100", "MobileNetV3Variant", LCNetStrides,
                 [num |-> 1, den |-> 1], FALSE, "lcnet", FALSE),
      ModelClass("LCNet150", "MobileNetV3", LargeStrides,
                 [num |-> 3, den |-> 2], FALSE, "lcnet", FALSE) }

\* the class whose constructor is MobileNetV3.__init__ itself
MobileNetV3 == [name |-> "MobileNetV3", base |-> "BaseModel"]

\* the available_feature_keys of a model class: "STEM_S2" and
\* f"BLOCK{i}_S{j}" for i, j in zip(range(n), strides)
available_feature_keys(cls) ==
    <<StemKey>> \o [i \in 1..Len(cls.strides) |->
                       BlockKey(i - 1, cls.strides[i])]

\* _src lines 90-98: the arguments of MobileNetV3.__init__ given by the
\* caller, or their defaults
CallerArgs(impl, cls, config, width, depth, fix, minimal, include_top) ==
    [impl |-> impl, cls |-> cls, config |-> config, width |-> width,
     depth |-> depth, fix_stem_and_head_channels |-> fix,
     minimal |-> minimal, include_top |-> include_top]

\* _src lines 380-402: MobileNetV3Variant.__init__ hands the class
\* attributes to MobileNetV3.__init__
VariantArgs(cls, include_top) ==
    CallerArgs("src", cls, cls.config, cls.width, cls.depth,
               cls.fix_stem_and_head_channels, cls.minimal, include_top)

\* the arguments MobileNetV3.__init__ runs with when cls is constructed: a
\* class that derives from MobileNetV3Variant hands over its attributes; a
\* class that derives from MobileNetV3 (LCNet150, line 655) inherits
\* MobileNetV3.__init__, which takes config and width from the caller, with
\* the defaults "large" and 1.0
ConstructionArgs(cls) ==
    IF cls.base = "MobileNetV3Variant"
    THEN {VariantArgs(cls, include_top) : include_top \in BOOLEAN}
    ELSE {CallerArgs("src", cls, config, width, [num |-> 2, den |-> 2],
                     FALSE, FALSE, include_top) :
              config \in {"large", "lcnet"},
              width \in {[num |-> 1, den |-> 1], [num |-> 3, den |-> 2]},
              include_top \in BOOLEAN}

\* the arguments MobileNetV3.__init__ runs with when cls is constructed with
\* default arguments: the class attributes through MobileNetV3Variant (lines
\* 380-402), the defaults of the signature (lines 93-97) otherwise
DefaultConstruction(cls) ==
    IF cls.base = "MobileNetV3Variant"
    THEN {VariantArgs(cls, TRUE)}
    ELSE {CallerArgs("src", cls, "large", [num |-> 1, den |-> 1],
                     [num |-> 2, den |-> 2], FALSE, FALSE, TRUE)}

InitCompile ==
    /\ \/ \E impl \in {"src", "legacy"} :
          \E config \in Configs(impl), width \in Widths, depth \in Depths,
             fix \in BOOLEAN, minimal \in BOOLEAN, include_top \in BOOLEAN :
              args = CallerArgs(impl, MobileNetV3, config, width, depth, fix,
                                minimal, include_top)
       \/ \E cls \in ModelClasses : args \in ConstructionArgs(cls)
    /\ pc = "stem"
    /\ current_stage_idx = 0
    /\ current_block_idx = 0
    /\ current_layer_idx = 0
    /\ block_r = 0
    /\ block_s = 0
    /\ x_channels = 3
    /\ current_stride = 0
    /\ features = <<>>
    /\ blocks = <<>>
    /\ head = [built |-> "nothing"]
    /\ stem = [built |-> FALSE]
    /\ BuilderIdle
    /\ DivisibleIdle
    /\ MODEL_REGISTRY = <<>>
    /\ module_all = <<>>
    /\ last = [op |-> "none"]
    /\ query = <<>>
    /\ target = <<>>
    /\ matched = [called |-> FALSE, result |-> FALSE]

\* _src lines 110-114: raise ValueError("config must be one of ...")
RejectConfig ==
    /\ pc = "stem"
    /\ ~ConfigAccepted(args.impl, args.config)
    /\ pc' = "rejected"
    /\ UNCHANGED <<regVars, matchVars, blockVars, divVars, args, current_stage_idx,
                   current_block_idx, current_layer_idx, block_r, block_s,
                   x_channels, current_stride, features, blocks, head, stem>>

\* lines 144-161 (legacy 232-247): the stem
BuildStem ==
    /\ pc = "stem"
    /\ ConfigAccepted(args.impl, args.config)
    /\ x_channels' = IF args.fix_stem_and_head_channels THEN 16
                     ELSE make_divisible(16, args.width)
    /\ stem' = [built |-> TRUE,
                activation |-> StemActivation(args.minimal)]
    /\ features' = <<StemKey>>
    /\ current_stride' = 2
    /\ pc' = IF Len(Table) = 0 THEN "head" ELSE "block"
    /\ UNCHANGED <<regVars, matchVars, blockVars, divVars, args, current_stage_idx,
                   current_block_idx, current_layer_idx, block_r, block_s,
                   blocks, head>>

\* lines 163-177 (legacy 249-263): the next BlockSpec of the stage
BeginBlock ==
    /\ pc = "block"
    /\ block_r' = EffectiveRepeat(Table, current_stage_idx, current_block_idx,
                                  SubCfg.r, args.depth)
    /\ block_s' = SubCfg.s
    /\ current_layer_idx' = 0
    /\ pc' = "layer"
    /\ UNCHANGED <<regVars, matchVars, blockVars, divVars, args, current_stage_idx,
                   current_block_idx, x_channels, current_stride, features,
                   blocks, head, stem>>

\* lines 178-228 (legacy 264-287): one pass of the loop over range(r)
ApplyLayer ==
    /\ pc = "layer"
    /\ current_layer_idx < block_r
    /\ LET strides == LayerStride(block_s, current_layer_idx)
           c == make_divisible(SubCfg.c, args.width)
           known == SubCfg.block_type \in KnownKinds(args.impl)
       IN  /\ block_s' = strides
           /\ blocks' =
                  IF known
                  THEN Append(blocks,
                         [stage_idx |-> current_stage_idx,
                          block_idx |-> current_block_idx,
                          name_idx |-> current_block_idx + current_layer_idx,
                          block_type |-> SubCfg.block_type,
                          in_channels |-> x_channels,
                          filters |-> c,
                          k |-> ForcedKernel(args.minimal, SubCfg.k),
                          strides |-> strides,
                          e |-> SubCfg.e,
                          se |-> ForcedSe(args.minimal, SubCfg.se),
                          act |-> ForcedAct(args.minimal, SubCfg.act),
                          has_skip |-> HasSkip(args.impl, SubCfg.block_type,
                                               x_channels, c, strides)])
                  ELSE blocks
           /\ x_channels' = IF known THEN c ELSE x_channels
           /\ current_stride' = current_stride * strides
    /\ current_layer_idx' = current_layer_idx + 1
    /\ UNCHANGED <<regVars, matchVars, blockVars, divVars, args, pc,
                   current_stage_idx, current_block_idx, block_r, features,
                   head, stem>>

\* lines 163, 178 with a `break` out of the loop over the stage after its
\* first BlockSpec (mutation)
EndBlockLeavingStage ==
    /\ pc = "layer"
    /\ current_layer_idx >= block_r
    /\ current_block_idx' = current_block_idx + 1
    /\ pc' = "stage_end"
    /\ UNCHANGED <<regVars, matchVars, blockVars, divVars, args,
                   current_stage_idx, current_layer_idx, block_r, block_s,
                   x_channels, current_stride, features, blocks, head, stem>>

\* lines 163, 178: range(r) is exhausted; on to the next BlockSpec, or to the
\* end of the stage
EndBlock ==
    /\ pc = "layer"
    /\ current_layer_idx >= block_r
    /\ current_block_idx' = current_block_idx + 1
    /\ pc' = IF current_block_idx + 1 < Len(Table[current_stage_idx + 1])
             THEN "block" ELSE "stage_end"
    /\ UNCHANGED <<regVars, matchVars, blockVars, divVars, args, current_stage_idx,
                   current_layer_idx, block_r, block_s, x_channels,
                   current_stride, features, blocks, head, stem>>

\* line 229 (legacy 288), and line 162: the feature tap of the stage
EndStage ==
    /\ pc = "stage_end"
    /\ features' = Append(features, BlockKey(current_stage_idx, current_stride))
    /\ current_stage_idx' = current_stage_idx + 1
    /\ current_block_idx' = 0
    /\ pc' = IF current_stage_idx + 1 < Len(Table) THEN "block" ELSE "head"
    /\ UNCHANGED <<regVars, matchVars, blockVars, divVars, args, current_layer_idx,
                   block_r, block_s, x_channels, current_stride, blocks, head,
                   stem>>

\* lines 232-239 without the max() of line 236 (mutation)
HeadChannelsScaled(config, fix, width) ==
    IF fix THEN BaseHeadChannels(config)
    ELSE make_divisible(BaseHeadChannels(config), width)

\* lines 232-239 (legacy 292-298): the head channel count
HeadChannels(config, fix, width) ==
    IF fix THEN BaseHeadChannels(config)
    ELSE LET scaled == make_divisible(BaseHeadChannels(config), width)
         IN  IF scaled > BaseHeadChannels(config) THEN scaled
             ELSE BaseHeadChannels(config)

\* lines 231-255 (legacy 290-322): the head, or the pooling; the legacy
\* constructor reads conv_head_channels, unassigned for a list config
BuildHead ==
    /\ pc = "head"
    /\ IF args.include_top /\ IsListConfig(args.config)
       THEN /\ pc' = "error"
            /\ head' = [built |-> "UnboundLocalError"]
       ELSE /\ pc' = "done"
            /\ head' =
                 IF args.include_top
                 THEN [built |-> "top",
                       conv_head_channels |->
                           HeadChannels(args.config,
                                        args.fix_stem_and_head_channels,
                                        args.width),
                       head_activation |-> HeadActivation(args.minimal)]
                 ELSE [built |-> "pooling"]
    /\ UNCHANGED <<regVars, matchVars, blockVars, divVars, args, current_stage_idx,
                   current_block_idx, current_layer_idx, block_r, block_s,
                   x_channels, current_stride, features, blocks, stem>>

NextCompile ==
    \/ RejectConfig
    \/ BuildStem
    \/ BeginBlock
    \/ ApplyLayer
    \/ EndBlock
    \/ EndStage
    \/ BuildHead

SpecCompile == InitCompile /\ [][NextCompile]_vars

\* lines 161-228 (legacy 246-287) as a function of the arguments a of the
\* constructor: the block applications made from layer l of BlockSpec j of
\* stage i on, x being the channel count of the current tensor and acc the
\* applications made so far
RECURSIVE BlockApplicationsFrom(_, _, _, _, _, _)
BlockApplicationsFrom(a, i, j, l, x, acc) ==
    LET table == ConfigTable(a.config)
    IN  IF i > Len(table) THEN acc
        ELSE IF j > Len(table[i])
        THEN BlockApplicationsFrom(a, i + 1, 1, 0, x, acc)
        ELSE LET sub_cfg == table[i][j]
                 rep == EffectiveRepeat(table, i - 1, j - 1, sub_cfg.r,
                                        a.depth)
                 strides == LayerStride(sub_cfg.s, l)
                 c == make_divisible(sub_cfg.c, a.width)
                 known == sub_cfg.block_type \in KnownKinds(a.impl)
             IN  IF l >= rep
                 THEN BlockApplicationsFrom(a, i, j + 1, 0, x, acc)
                 ELSE BlockApplicationsFrom(a, i, j, l + 1,
                          IF known THEN c ELSE x,
                          IF known
                          THEN Append(acc,
                                 [stage_idx |-> i - 1,
                                  block_idx |-> j - 1,
                                  name_idx |-> j - 1 + l,
                                  block_type |-> sub_cfg.block_type,
                                  in_channels |-> x,
                                  filters |-> c,
                                  k |-> ForcedKernel(a.minimal, sub_cfg.k),
                                  strides |-> strides,
                                  e |-> sub_cfg.e,
                                  se |-> ForcedSe(a.minimal, sub_cfg.se),
                                  act |-> ForcedAct(a.minimal, sub_cfg.act),
                                  has_skip |-> HasSkip(a.impl,
                                                       sub_cfg.block_type,
                                                       x, c, strides)])
                          ELSE acc)

\* lines 144-228 (legacy 233-287): the block applications of one call, from
\* the stem on
BlockApplications(a) ==
    BlockApplicationsFrom(a, 1, 1, 0,
        IF a.fix_stem_and_head_channels THEN 16
        ELSE make_divisible(16, a.width),
        <<>>)

\* the constructor is one sequential call and runs to its end: every step
\* that can be taken is taken
SpecCompileFair == SpecCompile /\ WF_vars(NextCompile)

(***************************************************************************)
(* The depthwise-separable block builder on its own:                       *)
(* apply_depthwise_separation_block of kimm/_src/blocks/                    *)
(* depthwise_separation.py, called with every argument combination below.  *)
(***************************************************************************)
\* line 32 with `and` between the two tests (mutation)
SkipMismatchBoth(has_skip, strides, input_filters, filters) ==
    has_skip /\ (strides # 1 /\ input_filters # filters)

\* line 32: the condition under which the builder raises ValueError
SkipMismatch(has_skip, strides, input_filters, filters) ==
    has_skip /\ (strides # 1 \/ input_filters # filters)

\* the arguments of the calls: the channel count of inputs, filters, strides,
\* se_ratio (in hundredths)
BuilderChannels == {8, 16, 24}
BuilderStrides == {1, 2}
BuilderSeRatios == {0, 25}

InitBlock ==
    /\ \E input_filters \in BuilderChannels, filters \in BuilderChannels,
          strides \in BuilderStrides, se_ratio \in BuilderSeRatios,
          has_skip \in BOOLEAN :
           ds_call = [input_filters |-> input_filters, filters |-> filters,
                      strides |-> strides, se_ratio |-> se_ratio,
                      has_skip |-> has_skip]
    /\ ds_pc = "check"
    /\ ds_layers = <<>>
    /\ DivisibleIdle
    /\ MODEL_REGISTRY = <<>>
    /\ module_all = <<>>
    /\ last = [op |-> "none"]
    /\ query = <<>>
    /\ target = <<>>
    /\ matched = [called |-> FALSE, result |-> FALSE]
    /\ CompilerIdle

\* lines 30-38: the test of has_skip against strides and the channel counts
CheckHasSkip ==
    /\ ds_pc = "check"
    /\ ds_pc' = IF SkipMismatch(ds_call.has_skip, ds_call.strides,
                                ds_call.input_filters, ds_call.filters)
                THEN "raised" ELSE "conv_dw"
    /\ UNCHANGED <<ds_call, ds_layers, divVars, regVars, matchVars, compVars>>

\* lines 40-50: the depthwise convolution
ApplyConvDw ==
    /\ ds_pc = "conv_dw"
    /\ ds_layers' = Append(ds_layers, "conv_dw")
    /\ ds_pc' = IF ds_call.se_ratio > 0 THEN "se" ELSE "conv_pw"
    /\ UNCHANGED <<ds_call, divVars, regVars, matchVars, compVars>>

\* lines 51-59: squeeze-and-excitation
ApplySe ==
    /\ ds_pc = "se"
    /\ ds_layers' = Append(ds_layers, "se")
    /\ ds_pc' = "conv_pw"
    /\ UNCHANGED <<ds_call, divVars, regVars, matchVars, compVars>>

\* lines 60-69: the pointwise convolution
ApplyConvPw ==
    /\ ds_pc = "conv_pw"
    /\ ds_layers' = Append(ds_layers, "conv_pw")
    /\ ds_pc' = IF ds_call.has_skip THEN "add" ELSE "returned"
    /\ UNCHANGED <<ds_call, divVars, regVars, matchVars, compVars>>

\* lines 70-72: layers.Add()([x, inputs]) and the return
AddInputs ==
    /\ ds_pc = "add"
    /\ ds_layers' = Append(ds_layers, "add")
    /\ ds_pc' = "returned"
    /\ UNCHANGED <<ds_call, divVars, regVars, matchVars, compVars>>

NextBlock ==
    \/ CheckHasSkip
    \/ ApplyConvDw
    \/ ApplySe
    \/ ApplyConvPw
    \/ AddInputs

SpecBlock == InitBlock /\ [][NextBlock]_vars

(***************************************************************************)
(* make_divisible on its own: make_divisible(n / 4) for n = 1..MaxQuarters *)
(***************************************************************************)
Quarter == [num |-> 1, den |-> 4]

InitDivisible ==
    /\ \E n \in 1..MaxQuarters :
           divisible = [called |-> FALSE, quarters |-> n, result |-> 0]
    /\ BuilderIdle
    /\ MODEL_REGISTRY = <<>>
    /\ module_all = <<>>
    /\ last = [op |-> "none"]
    /\ query = <<>>
    /\ target = <<>>
    /\ matched = [called |-> FALSE, result |-> FALSE]
    /\ CompilerIdle

CallMakeDivisible ==
    /\ ~divisible.called
    /\ divisible' = [called |-> TRUE, quarters |-> divisible.quarters,
                     result |-> make_divisible(divisible.quarters, Quarter)]
    /\ UNCHANGED <<blockVars, regVars, matchVars, compVars>>

NextDivisible == CallMakeDivisible

SpecDivisible == InitDivisible /\ [][NextDivisible]_vars

(***************************************************************************)
(* The import of kimm/_src/models/mobilenet_v3.py: its eleven              *)
(* registrations, in the order of lines 672-682, on an empty registry.     *)
(***************************************************************************)
\* __name__ of a model class, as code points
CodePointsOf(name) ==
    CASE name = "MobileNetV3W050Small" ->
            <<77, 111, 98, 105, 108, 101, 78, 101, 116, 86, 51, 87,
              48, 53, 48, 83, 109, 97, 108, 108>>
      [] name = "MobileNetV3W075Small" ->
            <<77, 111, 98, 105, 108, 101, 78, 101, 116, 86, 51, 87,
              48, 55, 53, 83, 109, 97, 108, 108>>
      [] name = "MobileNetV3W100Small" ->
            <<77, 111, 98, 105, 108, 101, 78, 101, 116, 86, 51, 87,
              49, 48, 48, 83, 109, 97, 108, 108>>
      [] name = "MobileNetV3W100SmallMinimal" ->
            <<77, 111, 98, 105, 108, 101, 78, 101, 116, 86, 51, 87,
              49, 48, 48, 83, 109, 97, 108, 108, 77, 105, 110, 105,
              109, 97, 108>>
      [] name = "MobileNetV3W100Large" ->
            <<77, 111, 98, 105, 108, 101, 78, 101, 116, 86, 51, 87,
              49, 48, 48, 76, 97, 114, 103, 101>>
      [] name = "MobileNetV3W100LargeMinimal" ->
            <<77, 111, 98, 105, 108, 101, 78, 101, 116, 86, 51, 87,
              49, 48, 48, 76, 97, 114, 103, 101, 77, 105, 110, 105,
              109, 97, 108>>
      [] name = "LCNet035" ->
            <<76, 67, 78, 101, 116, 48, 51, 53>>
      [] name = "LCNet050" ->
            <<76, 67, 78, 101, 116, 48, 53, 48>>
      [] name = "LCNet075" ->
            <<76, 67, 78, 101, 116, 48, 55, 53>>
      [] name = "LCNet100" ->
            <<76, 67, 78, 101, 116, 49, 48, 48>>
      [] name = "LCNet150" ->
            <<76, 67, 78, 101, 116, 49, 53, 48>>

\* the model class of the module with the given __name__
ClassNamed(name) == CHOOSE cls \in ModelClasses : cls.name = name

\* whether the class declares pretrained weights: available_weights is []
\* for LCNet035 (line 582) and LCNet150 (line 663), one "imagenet" entry for
\* the others
available_weights(cls) ==
    IF cls.name \in {"LCNet035", "LCNet150"} THEN <<>> ELSE <<"imagenet">>

\* lines 672-682 with LCNet150 registered with "imagenet" (mutation)
RegistrationsAllButOneTagged ==
    <<
       [model_cls |-> ClassNamed("MobileNetV3W050Small"), weights |-> PyStr(imagenet)],
       [model_cls |-> ClassNamed("MobileNetV3W075Small"), weights |-> PyStr(imagenet)],
       [model_cls |-> ClassNamed("MobileNetV3W100Small"), weights |-> PyStr(imagenet)],
       [model_cls |-> ClassNamed("MobileNetV3W100SmallMinimal"), weights |-> PyStr(imagenet)],
       [model_cls |-> ClassNamed("MobileNetV3W100Large"), weights |-> PyStr(imagenet)],
       [model_cls |-> ClassNamed("MobileNetV3W100LargeMinimal"), weights |-> PyStr(imagenet)],
       [model_cls |-> ClassNamed("LCNet035"), weights |-> None],
       [model_cls |-> ClassNamed("LCNet050"), weights |-> PyStr(imagenet)],
       [model_cls |-> ClassNamed("LCNet075"), weights |-> PyStr(imagenet)],
       [model_cls |-> ClassNamed("LCNet100"), weights |-> PyStr(imagenet)],
       [model_cls |-> ClassNamed("LCNet150"), weights |-> PyStr(imagenet)] >>

\* lines 672-682
Registrations ==
    <<
       [model_cls |-> ClassNamed("MobileNetV3W050Small"), weights |-> PyStr(imagenet)],
       [model_cls |-> ClassNamed("MobileNetV3W075Small"), weights |-> PyStr(imagenet)],
       [model_cls |-> ClassNamed("MobileNetV3W100Small"), weights |-> PyStr(imagenet)],
       [model_cls |-> ClassNamed("MobileNetV3W100SmallMinimal"), weights |-> PyStr(imagenet)],
       [model_cls |-> ClassNamed("MobileNetV3W100Large"), weights |-> PyStr(imagenet)],
       [model_cls |-> ClassNamed("MobileNetV3W100LargeMinimal"), weights |-> PyStr(imagenet)],
       [model_cls |-> ClassNamed("LCNet035"), weights |-> None],
       [model_cls |-> ClassNamed("LCNet050"), weights |-> PyStr(imagenet)],
       [model_cls |-> ClassNamed("LCNet075"), weights |-> PyStr(imagenet)],
       [model_cls |-> ClassNamed("LCNet100"), weights |-> PyStr(imagenet)],
       [model_cls |-> ClassNamed("LCNet150"), weights |-> None] >>

\* what add_model_to_registry reads of a model class of the module: its
\* __name__, issubclass(model_cls, BaseModel), available_feature_keys
RegistryClass(cls) ==
    [name |-> CodePointsOf(cls.name),
     is_base_model |-> TRUE,
     available_feature_keys |-> available_feature_keys(cls)]

\* the module's registrations are all made
Imported == Len(module_all) = Len(Registrations)

\* one of lines 672-682: the next call of add_model_to_registry
\* (model_registry.py lines 37-73)
ImportRegistration ==
    /\ ~Imported
    /\ LET reg == Registrations[Len(module_all) + 1]
           model_cls == RegistryClass(reg.model_cls)
       IN  /\ module_all' = Append(module_all, model_cls.name)
           /\ IF RaisesValueError(reg.weights)
              THEN UNCHANGED MODEL_REGISTRY
              ELSE MODEL_REGISTRY' =
                       Append(MODEL_REGISTRY,
                              NewEntry(model_cls, reg.weights))
           /\ last' = [op |-> "add", model_cls |-> model_cls,
                       weights |-> reg.weights,
                       warnings |-> Warnings(MODEL_REGISTRY, model_cls),
                       raised |-> RaisesValueError(reg.weights)]
    /\ UNCHANGED <<matchVars, compVars, blockVars, divVars>>

\* the name filters of the queries made of the imported module
ImportNameFilters ==
    {None, PyStr(<<>>), PyStr(<<108, 99, 110, 101, 116>>),
     PyStr(<<83, 109, 97, 108, 108>>), PyStr(<<49, 48, 48>>),
     PyStr(<<118, 51, Underscore, 108, 97, 114, 103, 101>>)}

\* a call of list_models once the module is imported
ListImported ==
    /\ Imported
    /\ \E name \in ImportNameFilters,
          feature_extractor \in FeatureExtractorFilters,
          weights \in WeightsFilters :
           list_models(name, feature_extractor, weights)

NextImport ==
    \/ ImportRegistration
    \/ ListImported

SpecImport == Init /\ [][NextImport]_vars

(***************************************************************************)
(* C1                                                                      *)
(***************************************************************************)
\* s is an ordered, not necessarily contiguous, subsequence of t
IsSubsequence(s, t) ==
    \E f \in [1..Len(s) -> 1..Len(t)] :
        /\ \A i \in 1..Len(s) : t[f[i]] = s[i]
        /\ \A i, j \in 1..Len(s) : i < j => f[i] < f[j]

\* C1: _match_string(query, target) is true exactly when the query, lowercased
\* and with every space, underscore and dot removed, is an ordered subsequence
\* of the lowercased (unstripped) target.
C1_MatchIsSubsequence ==
    matched.called =>
        (matched.result <=>
            IsSubsequence(
                SelectSeq(Lower(query),
                          LAMBDA c : c \notin {Space, Underscore, Dot}),
                Lower(target)))

\* a query with a separator and an upper-case letter that matches a longer
\* target non-contiguously
C1_Witness ==
    /\ matched.called /\ matched.result
    /\ query = <<97, Underscore, 66>>
    /\ target = <<97, 97, 98>>

(***************************************************************************)
(* Notions the claims about the registry are stated with.                  *)
(***************************************************************************)
Range(seq) == {seq[i] : i \in 1..Len(seq)}

RegistryNames == {MODEL_REGISTRY[i].name : i \in 1..Len(MODEL_REGISTRY)}

DistinctNames ==
    \A i, j \in 1..Len(MODEL_REGISTRY) :
        MODEL_REGISTRY[i].name = MODEL_REGISTRY[j].name => i = j

\* s and the weight tag are equal ignoring case
EqualIgnoringCase(s, tag) == tag # None /\ Lower(s) = Lower(tag.v)

PassesName(name, info) == name = None \/ _match_string(name.v, info.name)

PassesFeatureExtractor(feature_extractor, info) ==
    feature_extractor = None \/ info.feature_extractor = feature_extractor.v

PassesWeights(weights, info) ==
    \/ weights = None
    \/ weights = PyBool(TRUE) /\ info.weights # None
    \/ weights = PyBool(FALSE) /\ info.weights = None
    \/ weights.t = "str" /\ EqualIgnoringCase(weights.v, info.weights)

PassesAll(name, feature_extractor, weights, info) ==
    /\ PassesName(name, info)
    /\ PassesFeatureExtractor(feature_extractor, info)
    /\ PassesWeights(weights, info)

\* s occurs in t as a contiguous substring
IsSubstring(s, t) ==
    \E k \in 0..(Len(t) - Len(s)) : \A i \in 1..Len(s) : t[k + i] = s[i]

\* s < t in the lexicographic order of the code points
RECURSIVE CodePointLess(_, _)
CodePointLess(s, t) ==
    IF t = <<>> THEN FALSE
    ELSE IF s = <<>> THEN TRUE
    ELSE IF Head(s) # Head(t) THEN Head(s) < Head(t)
    ELSE CodePointLess(Tail(s), Tail(t))

(***************************************************************************)
(* C2                                                                      *)
(***************************************************************************)
\* C2: when every registry entry has a distinct name, list_models returns
\* exactly the names of the entries that pass all the given filters.
C2_ListReturnsExactlyFiltered ==
    (last.op = "list" /\ DistinctNames) =>
        /\ Range(last.result) \subseteq RegistryNames
        /\ \A i \in 1..Len(MODEL_REGISTRY) :
               MODEL_REGISTRY[i].name \in Range(last.result)
                   <=> PassesAll(last.name, last.feature_extractor,
                                 last.weights, MODEL_REGISTRY[i])

\* two entries of distinct names, all three filters given, one name kept and
\* one name removed
C2_Witness ==
    /\ last.op = "list"
    /\ DistinctNames
    /\ Len(MODEL_REGISTRY) = 2
    /\ last.name # None /\ last.feature_extractor # None /\ last.weights.t = "str"
    /\ Len(last.result) = 1

(***************************************************************************)
(* C3                                                                      *)
(***************************************************************************)
\* C3: list_models(name=q) returns a registered model only if q occurs as a
\* contiguous substring of its name.
C3_NameFilterIsSubstring ==
    (last.op = "list" /\ last.name # None) =>
        \A n \in Range(last.result) : IsSubstring(last.name.v, n)

(***************************************************************************)
(* C6                                                                      *)
(***************************************************************************)
\* the step is a call of add_model_to_registry with a name already registered
AddOfRegisteredName ==
    /\ last'.op = "add"
    /\ module_all' # module_all
    /\ last'.model_cls.name \in RegistryNames

\* what C6 says of such a step
WarnsAndAppends ==
    /\ last'.warnings >= 1
    /\ ~last'.raised
    /\ Len(MODEL_REGISTRY') = Len(MODEL_REGISTRY) + 1
    /\ SubSeq(MODEL_REGISTRY', 1, Len(MODEL_REGISTRY)) = MODEL_REGISTRY
    /\ MODEL_REGISTRY'[Len(MODEL_REGISTRY')].name = last'.model_cls.name

\* list_models returns no name twice
ListedAtMostOnce ==
    last'.op = "list" =>
        \A i, j \in 1..Len(last'.result) :
            last'.result[i] = last'.result[j] => i = j

\* C6 as stated: registering a name that is already in the registry emits a
\* warning, does not raise and appends a second entry for the name;
\* list_models afterwards returns the name at most once.
C6_DuplicateAlwaysAppends ==
    [][(AddOfRegisteredName => WarnsAndAppends) /\ ListedAtMostOnce]_vars

\* C6 as amended: the same, for a weights argument that is None or a string.
C6_DuplicateWarnsAndAppends ==
    [][((AddOfRegisteredName /\ (last'.weights = None \/ last'.weights.t = "str"))
            => WarnsAndAppends)
       /\ ListedAtMostOnce]_vars

\* a second entry named Foo was appended with a warning
C6_Witness ==
    /\ last.op = "add"
    /\ last.warnings = 1
    /\ ~last.raised
    /\ Len(MODEL_REGISTRY) = 2
    /\ MODEL_REGISTRY[1].name = Foo /\ MODEL_REGISTRY[2].name = Foo

(***************************************************************************)
(* C7                                                                      *)
(***************************************************************************)
\* C7: add_model_to_registry with a weights argument that is neither None nor
\* a string fails with an error and leaves MODEL_REGISTRY as it was.
C7_InvalidWeightsAppendsNothing ==
    [][(/\ last'.op = "add"
        /\ module_all' # module_all
        /\ last'.weights # None
        /\ last'.weights.t # "str")
            => (last'.raised /\ MODEL_REGISTRY' = MODEL_REGISTRY)]_vars

\* a failed registration on a registry that holds an entry
C7_Witness ==
    /\ last.op = "add"
    /\ last.raised
    /\ last.weights = PyBool(TRUE)
    /\ Len(MODEL_REGISTRY) = 1

(***************************************************************************)
(* C8                                                                      *)
(***************************************************************************)
\* entry i is the last entry of its name
LastOfItsName(i) ==
    \A j \in (i + 1)..Len(MODEL_REGISTRY) :
        MODEL_REGISTRY[j].name # MODEL_REGISTRY[i].name

\* a registration with a weights string stores the tag in lower case
StoresLowercaseTag ==
    (last.op = "add" /\ ~last.raised /\ last.weights # None) =>
        /\ MODEL_REGISTRY # <<>>
        /\ MODEL_REGISTRY[Len(MODEL_REGISTRY)].weights.t = "str"
        /\ MODEL_REGISTRY[Len(MODEL_REGISTRY)].weights.v = Lower(last.weights.v)

\* the call was list_models(weights=s) for a string s
ListByWeightsString ==
    /\ last.op = "list"
    /\ last.weights.t = "str"
    /\ last.name = None
    /\ last.feature_extractor = None

\* C8 as stated: a registration with weights in any letter case stores the
\* lowercase tag, and list_models(weights=s) keeps the entry for every string
\* s that equals the tag ignoring case.
C8_WeightTagIgnoresCase ==
    /\ StoresLowercaseTag
    /\ ListByWeightsString =>
           \A i \in 1..Len(MODEL_REGISTRY) :
               EqualIgnoringCase(last.weights.v, MODEL_REGISTRY[i].weights)
                   => MODEL_REGISTRY[i].name \in Range(last.result)

\* C8 as amended: the same, for an entry that is the last one registered under
\* its name.
C8_LastEntryWeightTagIgnoresCase ==
    /\ StoresLowercaseTag
    /\ ListByWeightsString =>
           \A i \in 1..Len(MODEL_REGISTRY) :
               (/\ LastOfItsName(i)
                /\ EqualIgnoringCase(last.weights.v, MODEL_REGISTRY[i].weights))
                   => MODEL_REGISTRY[i].name \in Range(last.result)

\* an entry whose tag is stored in lower case is found with the tag in upper
\* case
C8_Witness ==
    /\ last.op = "list"
    /\ last.weights = PyStr(IMAGENET)
    /\ last.name = None /\ last.feature_extractor = None
    /\ Len(MODEL_REGISTRY) = 1
    /\ MODEL_REGISTRY[1].weights = PyStr(imagenet)
    /\ last.result = <<MODEL_REGISTRY[1].name>>

(***************************************************************************)
(* C9                                                                      *)
(***************************************************************************)
\* C9: the list returned by list_models is in ascending lexicographic order
\* and holds no name twice, duplicate names in the registry or not.
C9_ListSortedAndUnique ==
    last.op = "list" =>
        \A i, j \in 1..Len(last.result) :
            i < j => CodePointLess(last.result[i], last.result[j])

\* bar was registered before Foo and is listed after it
C9_Witness ==
    /\ last.op = "list"
    /\ Len(MODEL_REGISTRY) = 2
    /\ MODEL_REGISTRY[1].name = bar /\ MODEL_REGISTRY[2].name = Foo
    /\ last.result = <<Foo, bar>>

(***************************************************************************)
(* C10                                                                     *)
(***************************************************************************)
\* the registry after clear_registry() and one registration of Foo with the
\* weights "imagenet"
OnlyFooWithImagenet ==
    /\ Len(MODEL_REGISTRY') = 1
    /\ MODEL_REGISTRY'[1].name = Foo
    /\ MODEL_REGISTRY'[1].weights = PyStr(imagenet)

\* C10: after clear_registry() and the registration of one model named Foo
\* with weights "imagenet", list_models(name="foo") returns exactly ["Foo"],
\* list_models(weights="imagenet") contains "Foo" and
\* list_models(weights=False) does not.
C10_RegistryRoundTrip ==
    [][/\ (/\ last.op = "clear"
           /\ last'.op = "add"
           /\ last'.model_cls.name = Foo
           /\ last'.weights = PyStr(imagenet)) => OnlyFooWithImagenet
       /\ (last'.op = "list" /\ OnlyFooWithImagenet) =>
              /\ (/\ last'.name = PyStr(<<102, 111, 111>>)
                  /\ last'.feature_extractor = None
                  /\ last'.weights = None) => last'.result = <<Foo>>
              /\ (/\ last'.name = None
                  /\ last'.feature_extractor = None
                  /\ last'.weights = PyStr(imagenet)) => Foo \in Range(last'.result)
              /\ (/\ last'.name = None
                  /\ last'.feature_extractor = None
                  /\ last'.weights = PyBool(FALSE)) => Foo \notin Range(last'.result)
      ]_vars

\* Foo alone in the registry, found by list_models(name="foo")
C10_Witness ==
    /\ last.op = "list"
    /\ last.name = PyStr(<<102, 111, 111>>)
    /\ last.feature_extractor = None /\ last.weights = None
    /\ MODEL_REGISTRY =
           <<[name |-> Foo, feature_extractor |-> TRUE, feature_keys |-> <<"A">>,
              weights |-> PyStr(imagenet)]>>
    /\ last.result = <<Foo>>

(***************************************************************************)
(* C11                                                                     *)
(***************************************************************************)
\* C11: in any sequence of register, list and clear operations an entry once
\* appended stays at its position with its fields until the next
\* clear_registry(); clear_registry() leaves the registry empty, and
\* list_models then returns the empty list for every filter combination.
C11_EntriesStayUntilClear ==
    [][/\ last'.op # "clear" =>
              /\ Len(MODEL_REGISTRY') >= Len(MODEL_REGISTRY)
              /\ SubSeq(MODEL_REGISTRY', 1, Len(MODEL_REGISTRY))
                     = MODEL_REGISTRY
       /\ last'.op = "clear" => MODEL_REGISTRY' = <<>>
       /\ (last.op = "clear" /\ last'.op = "list") => last'.result = <<>>
      ]_vars

\* clear_registry() has emptied a registry of two entries
C11_Witness ==
    /\ last.op = "clear"
    /\ last.cleared = 2
    /\ MODEL_REGISTRY = <<>>

(***************************************************************************)
(* C12                                                                     *)
(***************************************************************************)
\* the step is a call of list_models that follows a call of list_models with
\* the same arguments
SameListCallAgain ==
    /\ last.op = "list"
    /\ last'.op = "list"
    /\ last'.name = last.name
    /\ last'.feature_extractor = last.feature_extractor
    /\ last'.weights = last.weights

\* C12: list_models is read-only: for every registry state and every filter
\* combination it leaves MODEL_REGISTRY as it was, and a second call in a row
\* with the same arguments returns the same list.
C12_ListIsReadOnly ==
    [][/\ last'.op = "list" => MODEL_REGISTRY' = MODEL_REGISTRY
       /\ SameListCallAgain => last'.result = last.result]_vars

\* list_models has filtered one of two registered entries out, and both are
\* still in the registry
C12_Witness ==
    /\ last.op = "list"
    /\ last.feature_extractor = PyBool(FALSE)
    /\ Len(MODEL_REGISTRY) = 2
    /\ MODEL_REGISTRY[1].feature_extractor
    /\ ~MODEL_REGISTRY[2].feature_extractor
    /\ Len(last.result) = 1

(***************************************************************************)
(* C18                                                                     *)
(***************************************************************************)
\* the call was list_models with a name that is empty once the spaces,
\* underscores and dots are removed
ListByEmptyQuery ==
    /\ last.op = "list"
    /\ last.name # None
    /\ SelectSeq(last.name.v, LAMBDA c : c \notin {Space, Underscore, Dot})
           = <<>>

\* C18: a query that is empty, or empty after removing spaces, underscores
\* and dots, matches every target, so list_models with such a name returns
\* the list that list_models returns without a name and with the other
\* filters unchanged.
C18_EmptyQueryMatchesAll ==
    ListByEmptyQuery =>
        /\ \A t \in StringsOver(TargetChars, MaxTargetLen) :
               _match_string(last.name.v, t)
        /\ \A i \in 1..Len(MODEL_REGISTRY) :
               _match_string(last.name.v, MODEL_REGISTRY[i].name)
        /\ last.result =
               ListModels(MODEL_REGISTRY, None, last.feature_extractor,
                          last.weights)

\* the name " _." with the weights filter True on a registry of two names,
\* one of them with weights
C18_Witness ==
    /\ last.op = "list"
    /\ last.name = PyStr(<<Space, Underscore, Dot>>)
    /\ last.weights = PyBool(TRUE)
    /\ last.feature_extractor = None
    /\ RegistryNames = {Foo, bar}
    /\ Len(last.result) = 1

(***************************************************************************)
(* Notions the claims about the compiler are stated with.                  *)
(***************************************************************************)
Compiling == pc \notin {"idle", "stem", "rejected"}

\* the product of the strides of the BlockSpecs 1..n of a stage
RECURSIVE StageStrides(_, _)
StageStrides(stage, n) ==
    IF n = 0 THEN 1 ELSE stage[n].s * StageStrides(stage, n - 1)

\* the product of the strides of every BlockSpec of the stages 0..i
RECURSIVE StrideProduct(_, _)
StrideProduct(table, i) ==
    IF i < 0 THEN 1
    ELSE StageStrides(table[i + 1], Len(table[i + 1]))
             * StrideProduct(table, i - 1)

(***************************************************************************)
(* C4                                                                      *)
(***************************************************************************)
\* C4: a BlockSpec's repeat count is multiplied by the depth multiplier
\* (rounded up) only if the BlockSpec is neither the first nor the last entry
\* of its own stage; the first and the last entry keep their repeat count.
\* Stated for the positive depth multipliers.
C4_StageBoundaryBlocksUnscaled ==
    (pc = "layer" /\ args.depth.num > 0) =>
        block_r =
            IF /\ current_block_idx # 0
               /\ current_block_idx # Len(Table[current_stage_idx + 1]) - 1
            THEN Ceil(SubCfg.r * args.depth.num, args.depth.den)
            ELSE SubCfg.r

(***************************************************************************)
(* C5                                                                      *)
(***************************************************************************)
\* C5: STEM_S2 is recorded first and then one feature tap per stage, keyed
\* BLOCK{i}_S{c} with c = 2 * the product of the strides of every BlockSpec of
\* the stages 0..i; the running stride is the product over everything applied
\* so far, whatever the block kinds, and is not reset between stages.
C5_FeatureTapKeys ==
    Compiling =>
        /\ Len(features) = 1 + current_stage_idx
        /\ features[1] = StemKey
        /\ \A i \in 0..(current_stage_idx - 1) :
               features[i + 2] = BlockKey(i, 2 * StrideProduct(Table, i))
        /\ current_stride =
               2 * StrideProduct(Table, current_stage_idx - 1)
                 * (IF pc \in {"block", "layer", "stage_end"}
                    THEN StageStrides(Table[current_stage_idx + 1],
                             IF pc = "layer" /\ current_layer_idx = 0
                             THEN current_block_idx
                             ELSE IF pc = "layer" THEN current_block_idx + 1
                             ELSE current_block_idx)
                    ELSE 1)

\* the per-block strides [2, 1], [2, 1, 1] compiled to the end
C5_Witness ==
    /\ pc = "done"
    /\ args.config = "custom"
    /\ features = <<StemKey, BlockKey(0, 4), BlockKey(1, 8)>>

(***************************************************************************)
(* C13                                                                     *)
(***************************************************************************)
\* the BlockSpec a block builder call was made for
SpecOf(b) == Table[b.stage_idx + 1][b.block_idx + 1]

\* C13: under minimal mode every block application receives the activation
\* "relu", the kernel size min(configured kernel size, 3) and the
\* squeeze-excitation ratio 0, and the stem and the head use "relu" too;
\* without minimal mode every block receives the activation, kernel size and
\* squeeze-excitation ratio of its BlockSpec.
C13_MinimalOverrides ==
    Compiling =>
        /\ \A i \in 1..Len(blocks) :
               IF args.minimal
               THEN /\ blocks[i].act = "relu"
                    /\ blocks[i].k = IF SpecOf(blocks[i]).k < 3
                                     THEN SpecOf(blocks[i]).k ELSE 3
                    /\ blocks[i].se = 0
               ELSE /\ blocks[i].act = SpecOf(blocks[i]).act
                    /\ blocks[i].k = SpecOf(blocks[i]).k
                    /\ blocks[i].se = SpecOf(blocks[i]).se
        /\ args.minimal => stem.built /\ stem.activation = "relu"
        /\ (args.minimal /\ head.built = "top")
               => head.head_activation = "relu"

\* a minimal model with a head, one of whose blocks is configured with kernel
\* size 5, squeeze-excitation and hard_swish
C13_Witness ==
    /\ pc = "done"
    /\ args.minimal
    /\ head.built = "top"
    /\ \E i \in 1..Len(blocks) :
           /\ SpecOf(blocks[i]).k = 5
           /\ SpecOf(blocks[i]).se = 25
           /\ SpecOf(blocks[i]).act = "hard_swish"
           /\ blocks[i].k = 3

(***************************************************************************)
(* C14                                                                     *)
(***************************************************************************)
\* the call asks for the skip connection with a stride other than 1 or with
\* an input channel count other than filters
BadSkipCall ==
    /\ ds_pc # "idle"
    /\ ds_call.has_skip
    /\ (ds_call.strides # 1 \/ ds_call.input_filters # ds_call.filters)

\* C14: a call of the depthwise-separable builder with has_skip=True and a
\* stride other than 1, or an input channel count other than the requested
\* output channel count, fails with an error, and it fails before any layer
\* has been applied to the input: the call is either about to test has_skip
\* or has raised, with no layer applied.
C14_BadSkipRaisesFirst ==
    BadSkipCall => (ds_pc \in {"check", "raised"} /\ ds_layers = <<>>)

\* has_skip=True with stride 1 and 8 input channels for 16 filters has raised
C14_Witness ==
    /\ ds_pc = "raised"
    /\ ds_call.has_skip
    /\ ds_call.strides = 1
    /\ ds_call.input_filters = 8
    /\ ds_call.filters = 16
    /\ ds_layers = <<>>

(***************************************************************************)
(* C15                                                                     *)
(***************************************************************************)
\* every BlockSpec of the table is of a kind the constructor dispatches on
AllKindsKnown ==
    \A i \in 1..Len(Table) : \A j \in 1..Len(Table[i]) :
        Table[i][j].block_type \in KnownKinds(args.impl)

\* C15: compiling a stage configuration that holds a block kind other than
\* the recognised ones fails with a configuration error: the constructor
\* never completes on such a configuration, and no pass of the layer loop is
\* completed (with the running stride multiplied) for a BlockSpec of
\* unrecognised kind.
C15_UnknownKindFails ==
    /\ (pc = "layer" /\ current_layer_idx > 0)
           => SubCfg.block_type \in KnownKinds(args.impl)
    /\ (Compiling /\ pc = "done") => AllKindsKnown

(***************************************************************************)
(* C16                                                                     *)
(***************************************************************************)
\* C16: compiling with a non-positive width multiplier or a non-positive
\* depth multiplier fails with a configuration error before any block is
\* applied: no block builder call is ever made and the constructor never
\* completes.
C16_NonPositiveMultiplierFails ==
    (Compiling /\ (args.width.num <= 0 \/ args.depth.num <= 0)) =>
        (blocks = <<>> /\ pc # "done")

(***************************************************************************)
(* C19                                                                     *)
(***************************************************************************)
\* C19: for every model class, the feature keys the class declares in
\* available_feature_keys are a subset of the feature-tap keys that
\* constructing the model records.
C19_DeclaredKeysRecorded ==
    (pc = "done" /\ args.cls.name # "MobileNetV3") =>
        Range(available_feature_keys(args.cls)) \subseteq Range(features)

(***************************************************************************)
(* C20                                                                     *)
(***************************************************************************)
\* the block has as many input as output channels and the stride 1
SameShape(b) == b.in_channels = b.filters /\ b.strides = 1

\* C20 as stated: a block adds its input to its output iff its input channel
\* count equals its output channel count and its stride is 1; for the kind
\* "dsa" the compiler always passes has_skip=False, whatever the shapes.
C20_SkipIffSameShape ==
    \A i \in 1..Len(blocks) :
        IF blocks[i].block_type = "dsa" THEN ~blocks[i].has_skip
        ELSE blocks[i].has_skip <=> SameShape(blocks[i])

\* C20 as amended: the same for the depthwise-separable ("ds") and the
\* inverted-residual ("ir") blocks; a plain convolution ("cn") never adds its
\* input, and for "dsa" the compiler always passes has_skip=False.
C20_ResidualBlocksSkipIffSameShape ==
    \A i \in 1..Len(blocks) :
        IF blocks[i].block_type \in {"dsa", "cn"} THEN ~blocks[i].has_skip
        ELSE blocks[i].has_skip <=> SameShape(blocks[i])

\* the large table at width 1.0: the "ds" block of stage 0 keeps 16 channels
\* at stride 1 and adds its input, the first "ir" block has stride 2 and does
\* not
C20_Witness ==
    /\ pc = "done"
    /\ args.config = "large"
    /\ blocks[1].block_type = "ds" /\ SameShape(blocks[1])
    /\ blocks[1].has_skip
    /\ blocks[2].block_type = "ir" /\ blocks[2].strides = 2
    /\ ~blocks[2].has_skip

(***************************************************************************)
(* C17                                                                     *)
(***************************************************************************)
\* C17: for every positive value v, make_divisible(v) with the divisor 8 is a
\* positive multiple of 8 and at least 0.9 * v; make_divisible(30) = 32 and
\* make_divisible(8) = 8.  Here v = quarters / 4.
C17_MakeDivisible ==
    divisible.called =>
        /\ divisible.result > 0
        /\ divisible.result % 8 = 0
        /\ 10 * 4 * divisible.result >= 9 * divisible.quarters
        /\ divisible.quarters = 4 * 30 => divisible.result = 32
        /\ divisible.quarters = 4 * 8 => divisible.result = 8

\* make_divisible(35.75): 32 is below 0.9 * 35.75, so the result is 40
C17_Witness ==
    /\ divisible.called
    /\ divisible.quarters = 143
    /\ divisible.result = 40

(***************************************************************************)
(* C21                                                                     *)
(***************************************************************************)
\* C21: when a classification head is built, its channel count is the base
\* head-channel count if fix_stem_and_head_channels is set and otherwise
\* max(base, make_divisible(base * width)); so it is never below the base
\* count, and it equals the base count for every width multiplier at most 1.
C21_HeadChannels ==
    head.built = "top" =>
        LET base == BaseHeadChannels(args.config)
            scaled == make_divisible(base, args.width)
        IN  /\ head.conv_head_channels =
                   IF args.fix_stem_and_head_channels THEN base
                   ELSE IF scaled > base THEN scaled ELSE base
            /\ head.conv_head_channels >= base
            /\ args.width.num <= args.width.den
                   => head.conv_head_channels = base

\* the large table at width 1.5: the head has 1920 channels
C21_Witness ==
    /\ head.built = "top"
    /\ args.config = "large"
    /\ args.width = [num |-> 3, den |-> 2]
    /\ ~args.fix_stem_and_head_channels
    /\ head.conv_head_channels = 1920

(***************************************************************************)
(* C22                                                                     *)
(***************************************************************************)
\* the call compiles a built-in table with positive multipliers
BuiltInPositive ==
    /\ pc = "stem"
    /\ args.config \in {"small", "large", "lcnet"}
    /\ args.width.num > 0
    /\ args.depth.num > 0

\* the sum, over the BlockSpecs j.. of the stages i.. of the table, of the
\* effective repeat counts
RECURSIVE TotalRepeats(_, _, _, _)
TotalRepeats(table, depth, i, j) ==
    IF i > Len(table) THEN 0
    ELSE IF j > Len(table[i]) THEN TotalRepeats(table, depth, i + 1, 1)
    ELSE EffectiveRepeat(table, i - 1, j - 1, table[i][j].r, depth)
             + TotalRepeats(table, depth, i, j + 1)

\* the block applications were made stage by stage, BlockSpec by BlockSpec
InConfigurationOrder ==
    \A i, j \in 1..Len(blocks) :
        i < j =>
            \/ blocks[i].stage_idx < blocks[j].stage_idx
            \/ /\ blocks[i].stage_idx = blocks[j].stage_idx
               /\ blocks[i].block_idx <= blocks[j].block_idx

\* the constructor has come to its end
Compiled ==
    /\ pc = "done"
    /\ Len(blocks) = TotalRepeats(Table, args.depth, 1, 1)
    /\ InConfigurationOrder
    /\ Len(features) = Len(Table) + 1
    /\ features[Len(features)].idx = Len(Table) - 1
    /\ head.built \in {"top", "pooling"}

BlockName(b) == <<b.stage_idx, b.name_idx>>

\* C23: within one compilation of a built-in configuration with a positive
\* depth multiplier, the names "blocks_{stage_idx}_{block_idx + j}" given to
\* the block applications are pairwise distinct.
C23_BlockNamesDistinct ==
    (/\ args.config \in {"small", "large", "lcnet"}
     /\ args.depth.num > 0
     /\ args.width.num > 0) =>
        \A i, j \in 1..Len(blocks) :
            BlockName(blocks[i]) = BlockName(blocks[j]) => i = j

(***************************************************************************)
(* C24                                                                     *)
(***************************************************************************)
\* C24: constructing any of the eleven registered classes with default
\* arguments compiles the configuration family named by the class's config
\* attribute, at the width, depth and fix_stem_and_head_channels the class
\* declares.
C24_ClassAttributesCompiled ==
    (/\ pc = "done"
     /\ args.cls \in ModelClasses
     /\ args \in DefaultConstruction(args.cls)) =>
        /\ args.config = args.cls.config
        /\ args.width = args.cls.width
        /\ args.depth = args.cls.depth
        /\ args.fix_stem_and_head_channels =
               args.cls.fix_stem_and_head_channels
        /\ Len(features) = Len(ConfigTable(args.cls.config)) + 1

\* the ten classes that derive from MobileNetV3Variant are compiled as
\* declared
VariantsCompiledAsDeclared ==
    args.cls.base = "MobileNetV3Variant" => C24_ClassAttributesCompiled

(***************************************************************************)
(* C25                                                                     *)
(***************************************************************************)
\* the entries registered under the name n
EntriesNamed(n) == {i \in 1..Len(MODEL_REGISTRY) : MODEL_REGISTRY[i].name = n}

\* C25: when the registry holds several entries of one name, list_models
\* includes that name iff the entry registered last under it passes all the
\* given filters; the earlier entries of that name have no influence.
C25_LastEntryDecides ==
    last.op = "list" =>
        \A n \in RegistryNames :
            Cardinality(EntriesNamed(n)) > 1 =>
                \A i \in EntriesNamed(n) :
                    LastOfItsName(i) =>
                        (n \in Range(last.result)
                            <=> PassesAll(last.name, last.feature_extractor,
                                          last.weights, MODEL_REGISTRY[i]))

\* two entries of one name, the first passes the filters, the last does
\* not, and the name is not listed
C25_Witness ==
    /\ last.op = "list"
    /\ Len(MODEL_REGISTRY) = 2
    /\ MODEL_REGISTRY[1].name = MODEL_REGISTRY[2].name
    /\ PassesAll(last.name, last.feature_extractor, last.weights,
                 MODEL_REGISTRY[1])
    /\ ~PassesAll(last.name, last.feature_extractor, last.weights,
                  MODEL_REGISTRY[2])
    /\ last.result = <<>>

(***************************************************************************)
(* C26                                                                     *)
(***************************************************************************)
\* the feature-tap keys of a configuration family, from its table alone
FamilyKeys(config) ==
    <<StemKey>> \o
        [i \in 1..Len(ConfigTable(config)) |->
            BlockKey(i - 1, 2 * StrideProduct(ConfigTable(config), i - 1))]

\* every BlockSpec of the table was applied at least once
EveryBlockSpecApplied ==
    \A i \in 1..Len(Table) :
        \A j \in 1..Len(Table[i]) :
            \E n \in 1..Len(blocks) :
                /\ blocks[n].stage_idx = i - 1
                /\ blocks[n].block_idx = j - 1

\* the first application of a BlockSpec carries its stride, the others
\* stride 1
OnlyFirstApplicationStrides ==
    \A n \in 1..Len(blocks) :
        blocks[n].strides =
            IF blocks[n].name_idx = blocks[n].block_idx
            THEN Table[blocks[n].stage_idx + 1][blocks[n].block_idx + 1].s
            ELSE 1

\* C26: the feature-tap keys of a compilation depend on the configuration
\* family only: whatever the positive width multiplier, the positive depth
\* multiplier, the minimal flag and the fix_stem_and_head_channels flag,
\* the keys recorded are those of the family, because every BlockSpec is
\* applied at least once and only its first application carries its stride.
C26_KeysDependOnFamilyOnly ==
    (/\ pc = "done"
     /\ args.config \in {"small", "large", "lcnet"}
     /\ args.width.num > 0
     /\ args.depth.num > 0) =>
        /\ features = FamilyKeys(args.config)
        /\ EveryBlockSpecApplied
        /\ OnlyFirstApplicationStrides

\* the small family at width 0.5, depth 1.5, minimal and with the stem and
\* head channels fixed records the keys that its class of width 1.0 declares
C26_Witness ==
    /\ pc = "done"
    /\ args.config = "small"
    /\ args.width = [num |-> 1, den |-> 2]
    /\ args.depth = [num |-> 3, den |-> 2]
    /\ args.minimal
    /\ args.fix_stem_and_head_channels
    /\ features = <<StemKey, BlockKey(0, 4), BlockKey(1, 8), BlockKey(2, 16),
                    BlockKey(3, 16), BlockKey(4, 32), BlockKey(5, 32)>>

(***************************************************************************)
(* C27                                                                     *)
(***************************************************************************)
\* the calls the compiler has made to the depthwise-separable builder
BuilderCalls ==
    {n \in 1..Len(blocks) : blocks[n].block_type \in {"ds", "dsa"}}

\* C27: the compiler never triggers the skip-connection error of the
\* depthwise-separable builder: in every call it makes to that builder,
\* has_skip is true only when the stride passed is 1 and the channel count of
\* the current tensor equals the rounded output channel count passed.
C27_CompilerNeverMismatchesSkip ==
    \A n \in BuilderCalls :
        /\ blocks[n].has_skip =>
               (blocks[n].strides = 1
                    /\ blocks[n].in_channels = blocks[n].filters)
        /\ ~SkipMismatch(blocks[n].has_skip, blocks[n].strides,
                         blocks[n].in_channels, blocks[n].filters)

\* the large table at width 1.0: the builder is called with has_skip=True,
\* stride 1 and 16 channels in and out
C27_Witness ==
    /\ args.impl = "src"
    /\ args.config = "large"
    /\ Len(blocks) >= 1
    /\ blocks[1].block_type = "ds"
    /\ blocks[1].has_skip
    /\ blocks[1].strides = 1
    /\ blocks[1].in_channels = 16
    /\ blocks[1].filters = 16

(***************************************************************************)
(* C28                                                                     *)
(***************************************************************************)
\* the call was list_models(weights=False)
ListWithoutWeights ==
    /\ last.op = "list"
    /\ last.name = None
    /\ last.feature_extractor = None
    /\ last.weights = PyBool(FALSE)

\* C28: after the eleven registrations of the mobilenet_v3 module on an empty
\* registry, the registry holds eleven entries of pairwise distinct names, an
\* entry has a weight tag iff its class declares a non-empty
\* available_weights list, and list_models(weights=False) returns exactly
\* LCNet035 and LCNet150.
C28_ElevenRegistrations ==
    Imported =>
        /\ Len(MODEL_REGISTRY) = 11
        /\ DistinctNames
        /\ \A i \in 1..Len(MODEL_REGISTRY) :
               /\ MODEL_REGISTRY[i].name =
                      CodePointsOf(Registrations[i].model_cls.name)
               /\ MODEL_REGISTRY[i].weights # None
                      <=> available_weights(Registrations[i].model_cls) # <<>>
        /\ ListWithoutWeights =>
               last.result = <<CodePointsOf("LCNet035"),
                               CodePointsOf("LCNet150")>>

\* list_models(weights=False) of the imported module has returned two names
C28_Witness ==
    /\ Imported
    /\ Len(MODEL_REGISTRY) = 11
    /\ ListWithoutWeights
    /\ Len(last.result) = 2

(***************************************************************************)
(* C29                                                                     *)
(***************************************************************************)
\* what the claim compares of a block application: kind, rounded channels,
\* kernel size, stride, squeeze-excitation ratio, activation, skip decision
\* and name
Compared(applications) ==
    [n \in 1..Len(applications) |->
        LET b == applications[n]
        IN  <<b.block_type, b.filters, b.k, b.strides, b.se, b.act,
              b.has_skip, <<b.stage_idx, b.name_idx>> >>]

\* the arguments of the call, given to the constructor impl
GivenTo(impl) == [args EXCEPT !.impl = impl]

\* the arguments of the call, given to the constructor impl with
\* fix_stem_and_head_channels=fix
GivenWith(impl, fix) ==
    [args EXCEPT !.impl = impl, !.fix_stem_and_head_channels = fix]

C30_FailedRegistrationExportsName ==
    [][(/\ last'.op = "add"
        /\ last'.raised
        /\ <<last, module_all>>' # <<last, module_all>>)
            => /\ module_all' = Append(module_all, last'.model_cls.name)
               /\ last'.warnings = Warnings(MODEL_REGISTRY, last'.model_cls)
               /\ MODEL_REGISTRY' = MODEL_REGISTRY]_vars

\* a registration of a name the registry holds has failed: one warning, two
\* names in __all__, one entry
C30_Witness ==
    /\ last.op = "add"
    /\ last.raised
    /\ last.warnings = 1
    /\ Len(module_all) = 2
    /\ module_all[2] = last.model_cls.name
    /\ Len(MODEL_REGISTRY) = 1
    /\ MODEL_REGISTRY[1].name = last.model_cls.name

====
